---- MODULE Spec2Model ----
(***************************************************************************)
(* Model of the Drive tree engine of src/drive_utils.py: count_items,      *)
(* get_top_level_folders, copy_file and copy_folder, run against a remote  *)
(* tree that is listed page by page and whose calls may fail.              *)
(*                                                                         *)
(* The remote tree is the sequence `nodes`; an entry's identifier is its   *)
(* index.  Python's recursion is an explicit call stack of frames, one     *)
(* frame per invocation.  Every remote call (.execute()) is one step whose *)
(* outcome is chosen among Outcomes.                                       *)
(***************************************************************************)
EXTENDS Integers, Sequences, FiniteSets, TLC

\* ------------------------------------------------------------------ bounds
\* Largest number of entries of the remote tree before the operation starts.
InitNodes == 4
\* Largest page length the remote hands out (the code asks for 1000).
MaxPage == 2
\* Largest number of remote calls that fail in one run.
MaxFail == 2
\* Cap of the remote tree during a copy: a copy of a whole initial tree fits.
MaxNodes == 2 * InitNodes

\* ------------------------------------------------------------ data model
\* Python's None, for a count, an identifier, a page token or a name.
NoneVal == -1

\* mimeType classes.  FOLDER is 'application/vnd.google-apps.folder', GFILE
\* is 'application/vnd.google-apps.file', NATIVE any other
\* 'application/vnd.google-apps.*' type, BINARY every other type.
FOLDER == "folder"
GFILE == "gfile"
NATIVE == "native"
BINARY == "binary"
Kinds == {FOLDER, GFILE, NATIVE, BINARY}

\* Outcomes of one remote call: it answers, it raises HttpError, or it
\* raises another exception.
Outcomes == {"ok", "http", "other"}

VARIABLES
    nodes,   \* the remote tree: nodes[i] is the entry with identifier i
    args,    \* the arguments of the top-level call
    stack,   \* the call stack, the running invocation last
    pc,      \* "run", "done" (the top-level call returned), "raised"
    result,  \* what the top-level call returned
    fails,   \* number of remote calls that failed so far
    failed,  \* history: folders one of whose listing calls failed
    rets,    \* history: the copy_folder invocations that returned
    calls,   \* history: the calls that create an entry
    cpfail   \* history: source entries whose own copy call failed

vars == <<nodes, args, stack, pc, result, fails, failed, rets, calls, cpfail>>

Min(a, b) == IF a < b THEN a ELSE b

\* ------------------------------------------------------------ remote tree
IsFolderMime(k) == k = FOLDER

\* 'application/vnd.google-apps.' in mime_type
IsWorkspaceMime(k) == k \in {FOLDER, GFILE, NATIVE}

\* mimeType contains 'application/vnd.google-apps.file'
ContainsAppsFile(k) == k = GFILE

\* The three queries of the code, as predicates of an entry n and the
\* folder whose children are asked for.
CountQuery(n, folder) ==
    /\ n.parent = folder
    /\ ~n.trashed
    /\ (IsFolderMime(n.kind) \/ ~ContainsAppsFile(n.kind))

FolderQuery(n, folder) ==
    /\ n.parent = folder
    /\ IsFolderMime(n.kind)
    /\ ~n.trashed

CopyQuery(n, folder) ==
    /\ n.parent = folder
    /\ ~n.trashed

Query(q, n, folder) ==
    CASE q = "count" -> CountQuery(n, folder)
      [] q = "list" -> FolderQuery(n, folder)
      [] q = "copy" -> CopyQuery(n, folder)

\* The identifiers of the entries of tree t that match query q under
\* folder, in the remote's order (the order of creation).
MatchesIn(t, q, folder) ==
    SelectSeq([i \in 1..Len(t) |-> i], LAMBDA i : Query(q, t[i], folder))

Matches(q, folder) == MatchesIn(nodes, q, folder)

\* files().list(q, pageToken, pageSize).execute(): the page that starts
\* after the tok entries already handed out, and the next page token (0,
\* no token, on the last page).
ListPage(q, folder, tok) ==
    LET all == Matches(q, folder)
        hi == Min(tok + args.page, Len(all))
    IN [files |-> SubSeq(all, tok + 1, hi),
        next |-> IF hi < Len(all) THEN hi ELSE 0,
        all |-> all]

\* ------------------------------------------------------------ initial trees
Entry(p, k, t, nm) ==
    [parent |-> p, kind |-> k, trashed |-> t, name |-> nm, orig |-> 0,
     via |-> "init"]

\* Entries trashed by hand: trashed, under a parent that is not.  A tree
\* has at most one (its descendants are in the trash with it).
HandTrashed(t) ==
    {i \in 1..Len(t) : t[i].trashed /\ (t[i].parent = 0 \/ ~t[t[i].parent].trashed)}

\* The entries that may be added to tree t: under a folder, in the trash
\* when the parent is.  Identifiers are given level by level, so parents
\* do not decrease.
Extensions(t) ==
    {Append(t, Entry(p, k, tr, Len(t) + 1)) :
        p \in {q \in 1..Len(t) : /\ q >= t[Len(t)].parent
                                 /\ IsFolderMime(t[q].kind)},
        k \in Kinds, tr \in BOOLEAN}

WellTrashed(t) ==
    /\ \A i \in 1..Len(t) :
          (t[i].parent # 0 /\ t[t[i].parent].trashed) => t[i].trashed
    /\ Cardinality(HandTrashed(t)) <= 1

RECURSIVE Trees(_)
Trees(n) ==
    IF n = 1 THEN {<<Entry(0, FOLDER, FALSE, 1)>>}
    ELSE LET smaller == Trees(n - 1)
             full == {t \in smaller : Len(t) = n - 1}
         IN smaller \cup {t \in UNION {Extensions(s) : s \in full} : WellTrashed(t)}

Folders(t) == {i \in 1..Len(t) : IsFolderMime(t[i].kind)}

\* Entry x of tree t is a, or lies below a.
RECURSIVE Within(_, _, _)
Within(t, x, a) ==
    IF x = a THEN TRUE
    ELSE IF x = 0 THEN FALSE
    ELSE Within(t, t[x].parent, a)

\* ------------------------------------------------------------ call stack
\* One invocation.  fn is the function, id its folder, dst and name the
\* other arguments of copy_folder, rec the recursive flag of count_items.
\* st is the place in the body: "create", "list" (about to ask for a page),
\* "items" (in the for loop, at items[idx]), "ret" (returning ret).
\* tok is page_token, next the nextPageToken of the page at hand, fc, dc,
\* nc the three counters, lst top_level_folders, newid new_folder_id.
\* History: seen lists the entries handled, snap the children the remote
\* held at the last listing call, cfail and lfail whether the creation
\* call and a listing call of this invocation failed.
Frame(fn, id, dst, name, rec) ==
    [fn |-> fn, id |-> id, dst |-> dst, name |-> name, rec |-> rec,
     st |-> IF fn = "copy" THEN "create" ELSE "list",
     newid |-> NoneVal, items |-> <<>>, idx |-> 1, tok |-> 0, next |-> 0,
     fc |-> 0, dc |-> 0, nc |-> 0, lst |-> <<>>,
     ret |-> [val |-> <<>>, none |-> FALSE],
     seen |-> <<>>, snap |-> <<>>, cfail |-> FALSE, lfail |-> FALSE]

Top == stack[Len(stack)]
SetTop(f) == [stack EXCEPT ![Len(stack)] = f]
Pop == SubSeq(stack, 1, Len(stack) - 1)

Running(fn, st) == pc = "run" /\ stack # <<>> /\ Top.fn = fn /\ Top.st = st

\* A remote call may fail while fewer than MaxFail calls have.
MayFail(o) == o = "ok" \/ fails < MaxFail
Failures(o) == IF o = "ok" THEN fails ELSE fails + 1

NoneTriple == <<NoneVal, NoneVal, NoneVal>>

\* return value of the normal exit of each function
ReturnValue(f) ==
    CASE f.fn = "count" -> [val |-> <<f.fc, f.dc, f.nc>>, none |-> FALSE]
      [] f.fn = "list" -> [val |-> f.lst, none |-> FALSE]
      [] f.fn = "copy" -> [val |-> <<f.newid>>, none |-> FALSE]

\* return value of the except HttpError / except Exception handlers
ExceptValue(f) ==
    CASE f.fn = "count" -> [val |-> NoneTriple, none |-> FALSE]
      [] f.fn = "list" -> [val |-> <<>>, none |-> TRUE]
      [] f.fn = "copy" -> [val |-> <<>>, none |-> TRUE]

\* NextPageToken that drops the token: the loop ends after one page.
NoNextPageToken(f) == 0

\* page_token passed to the next files().list call
NextPageToken(f) == f.next

\* The end of the while body: page_token = results.get('nextPageToken');
\* if not page_token: break; after the loop, return.
PageEnd(f) ==
    IF NextPageToken(f) = 0
    THEN [f EXCEPT !.st = "ret", !.ret = ReturnValue(f)]
    ELSE [f EXCEPT !.st = "list", !.tok = NextPageToken(f)]

\* The for loop goes on with the item at idx, or the page is done.
Step(f) == IF f.idx > Len(f.items) THEN PageEnd(f) ELSE f

\* results = ...execute(); items = results.get('files', [])
GotPage(f, page) ==
    [f EXCEPT !.items = page.files, !.idx = 1, !.next = page.next,
              !.snap = page.all, !.st = "items"]

\* The except handler of the invocation: it returns the absence value.
Caught(f, lfail) ==
    [f EXCEPT !.st = "ret", !.ret = ExceptValue(f),
              !.lfail = lfail, !.cfail = ~lfail]

history == <<failed, rets, calls, cpfail>>

\* ------------------------------------------------------------ count_items
\* The listing call of count_items: a page, or HttpError (caught: the
\* invocation returns (None, None, None)), or another exception, which no
\* handler of count_items catches: it leaves every invocation on the stack.
CountList ==
    /\ Running("count", "list")
    /\ \E o \in Outcomes :
        /\ MayFail(o)
        /\ fails' = Failures(o)
        /\ CASE o = "ok" ->
                  /\ stack' = SetTop(Step(GotPage(Top, ListPage("count", Top.id, Top.tok))))
                  /\ UNCHANGED <<pc, result>>
             [] o = "http" ->
                  /\ stack' = SetTop(Caught(Top, TRUE))
                  /\ UNCHANGED <<pc, result>>
             [] o = "other" ->
                  /\ stack' = <<>>
                  /\ pc' = "raised"
                  /\ UNCHANGED result
        /\ failed' = IF o = "ok" THEN failed ELSE failed \cup {Top.id}
    /\ UNCHANGED <<nodes, args, rets, calls, cpfail>>

\* AddSub without the "+ 1" of line 49.
AddSubNoSelf(f, sub) ==
    IF sub[1] # NoneVal /\ sub[2] # NoneVal /\ sub[3] # NoneVal
    THEN [f EXCEPT !.fc = @ + sub[1], !.dc = @ + sub[2], !.nc = @ + sub[3]]
    ELSE f

\* if sub_files is not None and sub_folders is not None and sub_nested is
\* not None: add the sub-call's counts, and one more nested folder.
AddSub(f, sub) ==
    IF sub[1] # NoneVal /\ sub[2] # NoneVal /\ sub[3] # NoneVal
    THEN [f EXCEPT !.fc = @ + sub[1], !.dc = @ + sub[2], !.nc = @ + sub[3] + 1]
    ELSE f

\* One item of the for loop of count_items.
CountItem ==
    /\ Running("count", "items")
    /\ LET f == Top
           item == f.items[f.idx]
           g == [f EXCEPT !.seen = Append(@, item)]
       IN IF IsFolderMime(nodes[item].kind)
          THEN LET h == [g EXCEPT !.dc = @ + 1]
               IN IF f.rec
                  THEN stack' = Append(SetTop(h), Frame("count", item, 0, 0, TRUE))
                  ELSE stack' = SetTop(Step([h EXCEPT !.idx = @ + 1]))
          ELSE stack' = SetTop(Step([g EXCEPT !.fc = @ + 1, !.idx = @ + 1]))
    /\ UNCHANGED <<nodes, args, pc, result, fails, history>>

\* count_items returns: to the caller's loop, or out of the top-level call.
CountReturn ==
    /\ Running("count", "ret")
    /\ LET f == Top
       IN /\ IF Len(stack) = 1
             THEN /\ stack' = <<>>
                  /\ pc' = "done"
                  /\ result' = f.ret
             ELSE LET p == stack[Len(stack) - 1]
                      q == AddSub(p, f.ret.val)
                  IN /\ stack' = Append(SubSeq(stack, 1, Len(stack) - 2),
                                        Step([q EXCEPT !.idx = @ + 1]))
                     /\ UNCHANGED <<pc, result>>
    /\ UNCHANGED <<nodes, args, fails, history>>

\* ------------------------------------------------------------ get_top_level_folders
\* The listing call of get_top_level_folders: the page is appended to
\* top_level_folders; HttpError is caught (None is returned), another
\* exception leaves the function.
ListFetch ==
    /\ Running("list", "list")
    /\ \E o \in Outcomes :
        /\ MayFail(o)
        /\ fails' = Failures(o)
        /\ CASE o = "ok" ->
                  LET page == ListPage("list", Top.id, Top.tok)
                      f == GotPage(Top, page)
                  IN /\ stack' = SetTop(PageEnd([f EXCEPT !.lst = @ \o page.files,
                                                          !.seen = @ \o page.files]))
                     /\ UNCHANGED <<pc, result>>
             [] o = "http" ->
                  /\ stack' = SetTop(Caught(Top, TRUE))
                  /\ UNCHANGED <<pc, result>>
             [] o = "other" ->
                  /\ stack' = <<>>
                  /\ pc' = "raised"
                  /\ UNCHANGED result
        /\ failed' = IF o = "ok" THEN failed ELSE failed \cup {Top.id}
    /\ UNCHANGED <<nodes, args, rets, calls, cpfail>>

ListReturn ==
    /\ Running("list", "ret")
    /\ stack' = <<>>
    /\ pc' = "done"
    /\ result' = Top.ret
    /\ UNCHANGED <<nodes, args, fails, history>>

\* ------------------------------------------------------------ copy_file
\* An entry a creating call can name as parent: a folder the remote
\* holds, or the top of the drive (0, the alias 'root').
Exists(t, p) == p = 0 \/ (p \in 1..Len(t) /\ IsFolderMime(t[p].kind))

\* The entry copy_file makes of file_id: files().copy for a workspace
\* type, get_media then files().create with the same mimetype otherwise.
CopiedFile(t, file_id, destination_folder_id, file_name) ==
    [parent |-> destination_folder_id, kind |-> t[file_id].kind,
     trashed |-> FALSE, name |-> file_name, orig |-> file_id,
     via |-> IF IsWorkspaceMime(t[file_id].kind) THEN "copy" ELSE "upload"]

\* copy_file(service, file_id, destination_folder_id, file_name) as the
\* tree it leaves: one new entry when every remote call answers, nothing
\* when one raises (HttpError or another exception: both are caught).
copy_file(t, file_id, destination_folder_id, file_name, o) ==
    IF o = "ok"
    THEN Append(t, CopiedFile(t, file_id, destination_folder_id, file_name))
    ELSE t

\* ------------------------------------------------------------ copy_folder
CreatedFolder(f) ==
    [parent |-> f.dst, kind |-> FOLDER, trashed |-> FALSE, name |-> f.name,
     orig |-> f.id, via |-> "create"]

\* Created with the destination taken for the new folder.
CreatedAsDestination(f, id) == [f EXCEPT !.newid = f.dst, !.st = "list"]

\* new_folder_id after files().create answered with identifier id
Created(f, id) == [f EXCEPT !.newid = id, !.st = "list"]

\* new_folder_id = destination_folder_id, when folder_name is empty
NoCreate(f) == [f EXCEPT !.newid = f.dst, !.st = "list"]

\* CreateFailed without the return: the body goes on, new_folder_id unset.
CreateFailedGoesOn(f) == [f EXCEPT !.st = "list", !.cfail = TRUE]

\* the creation call raised: the handler returns None
CreateFailed(f) == Caught(f, FALSE)

\* The head of copy_folder: with a folder_name, one files().create call
\* under destination_folder_id; without, no call.
CopyCreate ==
    /\ Running("copy", "create")
    /\ LET f == Top
       IN IF f.name # 0
          THEN \E o \in Outcomes :
                /\ MayFail(o)
                /\ fails' = Failures(o)
                /\ calls' = calls \cup {[verb |-> "create", parent |-> f.dst,
                                        existed |-> Exists(nodes, f.dst)]}
                /\ IF o = "ok"
                   THEN /\ Len(nodes) < MaxNodes
                        /\ Exists(nodes, f.dst)
                        /\ nodes' = Append(nodes, CreatedFolder(f))
                        /\ stack' = SetTop(Created(f, Len(nodes) + 1))
                        /\ UNCHANGED cpfail
                   ELSE /\ stack' = SetTop(CreateFailed(f))
                        /\ cpfail' = cpfail \cup {f.id}
                        /\ UNCHANGED nodes
          ELSE /\ stack' = SetTop(NoCreate(f))
               /\ UNCHANGED <<nodes, fails, calls, cpfail>>
    /\ UNCHANGED <<args, pc, result, failed, rets>>

\* The listing call of copy_folder: a page, or an exception of either
\* kind, caught: the invocation returns None.
CopyList ==
    /\ Running("copy", "list")
    /\ \E o \in Outcomes :
        /\ MayFail(o)
        /\ fails' = Failures(o)
        /\ IF o = "ok"
           THEN stack' = SetTop(Step(GotPage(Top, ListPage("copy", Top.id, Top.tok))))
           ELSE stack' = SetTop(Caught(Top, TRUE))
        /\ failed' = IF o = "ok" THEN failed ELSE failed \cup {Top.id}
    /\ UNCHANGED <<nodes, args, pc, result, rets, calls, cpfail>>

\* SubCopy into destination_folder_id instead of new_folder_id.
SubCopyIntoParent(f, item) == Frame("copy", item, f.dst, nodes[item].name, FALSE)

\* the invocation copy_folder(service, item['id'], new_folder_id, item['name'])
SubCopy(f, item) == Frame("copy", item, f.newid, nodes[item].name, FALSE)

\* A folder item: the recursive call.
CopySubfolder ==
    /\ Running("copy", "items")
    /\ LET f == Top
           item == f.items[f.idx]
       IN /\ IsFolderMime(nodes[item].kind)
          /\ stack' = Append(SetTop([f EXCEPT !.seen = Append(@, item)]),
                             SubCopy(f, item))
    /\ UNCHANGED <<nodes, args, pc, result, fails, history>>

\* Any other item: copy_file(service, item['id'], new_folder_id,
\* item['name']), whose return value is not looked at.
CopyFile ==
    /\ Running("copy", "items")
    /\ LET f == Top
           item == f.items[f.idx]
       IN /\ ~IsFolderMime(nodes[item].kind)
          /\ \E o \in Outcomes :
                /\ MayFail(o)
                /\ fails' = Failures(o)
                /\ o = "ok" => Len(nodes) < MaxNodes /\ Exists(nodes, f.newid)
                /\ nodes' = copy_file(nodes, item, f.newid, nodes[item].name, o)
                /\ cpfail' = IF o = "ok" THEN cpfail ELSE cpfail \cup {item}
                /\ calls' = calls \cup
                      {[verb |-> IF IsWorkspaceMime(nodes[item].kind)
                                 THEN "copy" ELSE "upload",
                        parent |-> f.newid, existed |-> Exists(nodes, f.newid)]}
          /\ stack' = SetTop(Step([f EXCEPT !.seen = Append(@, item),
                                            !.idx = @ + 1]))
    /\ UNCHANGED <<args, pc, result, failed, rets>>

\* AfterSubCopy giving up when the recursive call returned None.
AfterSubCopyGivesUp(p, ret) ==
    IF ret.none
    THEN [p EXCEPT !.st = "ret", !.ret = [val |-> <<>>, none |-> TRUE]]
    ELSE Step([p EXCEPT !.idx = @ + 1])

\* What the caller's loop does with the value a recursive call returned:
\* nothing, it goes on with the next item.
AfterSubCopy(p, ret) == Step([p EXCEPT !.idx = @ + 1])

\* The record kept of an invocation that returned.
Returned(f, depth) ==
    [src |-> f.id, dst |-> f.dst, name |-> f.name, newid |-> f.newid,
     cfail |-> f.cfail, lfail |-> f.lfail, ret |-> f.ret, seen |-> f.seen,
     snap |-> f.snap, depth |-> depth]

\* copy_folder returns: to the caller's loop, or out of the top-level call.
CopyReturn ==
    /\ Running("copy", "ret")
    /\ LET f == Top
       IN /\ rets' = rets \cup {Returned(f, Len(stack))}
          /\ IF Len(stack) = 1
             THEN /\ stack' = <<>>
                  /\ pc' = "done"
                  /\ result' = f.ret
             ELSE /\ stack' = Append(SubSeq(stack, 1, Len(stack) - 2),
                                     AfterSubCopy(stack[Len(stack) - 1], f.ret))
                  /\ UNCHANGED <<pc, result>>
    /\ UNCHANGED <<nodes, args, fails, failed, calls, cpfail>>

\* ------------------------------------------------------------ specifications
Pending == [val |-> <<>>, none |-> FALSE]

InitWith(t, a, f) ==
    /\ nodes = t
    /\ args = a
    /\ stack = <<f>>
    /\ pc = "run"
    /\ result = Pending
    /\ fails = 0
    /\ failed = {}
    /\ rets = {}
    /\ calls = {}
    /\ cpfail = {}

Args(op, src, dst, name, rec, page, n) ==
    [op |-> op, src |-> src, dst |-> dst, name |-> name, rec |-> rec,
     page |-> page, n0 |-> n]

\* count_items(service, folder_id, recursive) on folder 1 of any tree
InitCount ==
    \E t \in Trees(InitNodes), rec \in BOOLEAN, page \in 1..MaxPage :
        InitWith(t, Args("count", 1, 0, 0, rec, page, Len(t)),
                 Frame("count", 1, 0, 0, rec))

\* get_top_level_folders(service, folder_id) on folder 1 of any tree
InitList ==
    \E t \in Trees(InitNodes), page \in 1..MaxPage :
        InitWith(t, Args("list", 1, 0, 0, FALSE, page, Len(t)),
                 Frame("list", 1, 0, 0, FALSE))

NextRead == CountList \/ CountItem \/ CountReturn \/ ListFetch \/ ListReturn

ReadSpec == (InitCount \/ InitList) /\ [][NextRead]_vars

CopyInit(t, page, src, dst, name) ==
    InitWith(t, Args("copy", src, dst, name, FALSE, page, Len(t)),
             Frame("copy", src, dst, name, FALSE))

\* copy_folder(service, source, destination, folder_name) of any folder of
\* any tree, with its name or without a name, into a destination outside
\* the source: the top of the drive or a folder that is not within it
InitCopy ==
    \E t \in Trees(InitNodes), page \in 1..MaxPage :
      \E src \in Folders(t), dst \in {0} \cup Folders(t) :
        \E name \in {0, t[src].name} :
            /\ ~Within(t, dst, src)
            /\ CopyInit(t, page, src, dst, name)

\* copy_folder of any folder into itself or into a folder within it
InitSelfCopy ==
    \E t \in Trees(InitNodes), page \in 1..MaxPage :
      \E src \in Folders(t), dst \in Folders(t) :
        \E name \in {0, t[src].name} :
            /\ Within(t, dst, src)
            /\ CopyInit(t, page, src, dst, name)

NextCopy == CopyCreate \/ CopyList \/ CopySubfolder \/ CopyFile \/ CopyReturn

CopySpec == InitCopy /\ [][NextCopy]_vars

SelfCopySpec == InitSelfCopy /\ [][NextCopy]_vars

\* The interpreter runs the one thread there is: a step that can be taken
\* is taken.
FairSelfCopySpec == SelfCopySpec /\ WF_vars(NextCopy)

Init == InitCount \/ InitList \/ InitCopy

Next == NextRead \/ NextCopy

Spec == Init /\ [][Next]_vars

\* ------------------------------------------------------------ properties
\* The entries strictly below a that are not in the trash.
LiveBelow(a) ==
    {i \in 1..Len(nodes) : i # a /\ Within(nodes, i, a) /\ ~nodes[i].trashed}

LiveFoldersBelow(a) == {i \in LiveBelow(a) : IsFolderMime(nodes[i].kind)}
LiveLeavesBelow(a) == {i \in LiveBelow(a) : ~IsFolderMime(nodes[i].kind)}

\* A recursive count of folder 1 returned and no listing call failed.
CountedAll ==
    /\ pc = "done"
    /\ args.op = "count"
    /\ args.rec
    /\ fails = 0

file_count == result.val[1]
folder_count == result.val[2]
nested_folder_count == result.val[3]

\* C1, as stated: after a recursive count in which no listing call fails,
\* nested_folder_count is the number of folders below the immediate child
\* folders of the root (the immediate children themselves left out).
C1_NestedLeavesOutChildren ==
    CountedAll =>
        nested_folder_count =
            Cardinality({i \in LiveFoldersBelow(1) : nodes[i].parent # 1})

\* C1, amended: after a recursive count in which no listing call fails,
\* nested_folder_count is the number of folders strictly below the root,
\* its immediate child folders included, and so equals folder_count (one
\* empty child folder gives 1 and 1, a child holding one folder 2 and 2).
C1_NestedCountsEveryFolderBelow ==
    CountedAll =>
        /\ nested_folder_count = Cardinality(LiveFoldersBelow(1))
        /\ nested_folder_count = folder_count

\* A recursive count went two folders deep.
C1_Witness ==
    /\ CountedAll
    /\ \E i \in LiveFoldersBelow(1) : nodes[i].parent # 1
    /\ nested_folder_count = 2

\* C2: after a recursive count in which no listing call fails, file_count
\* is the number of entries below the root that are neither folders nor in
\* the trash, and folder_count the number of folders below the root that
\* are not in the trash.
C2_CountsEveryEntryBelow ==
    CountedAll =>
        /\ file_count = Cardinality(LiveLeavesBelow(1))
        /\ folder_count = Cardinality(LiveFoldersBelow(1))

\* The entries below folder 1 that a count reaches when the folders of
\* `failed` are taken to be empty.
ReachedBelow ==
    {i \in LiveBelow(1) :
        \A a \in failed : a = i \/ ~Within(nodes, i, a)}

\* C3: when recursive sub-calls fail (they return the absence triple), the
\* top-level call returns counts, and the three of them are what the
\* code returns for the tree in which each failing folder is empty.
C3_FailedSubcallCountsAsEmpty ==
    (/\ pc = "done" /\ args.op = "count" /\ args.rec
     /\ failed # {} /\ 1 \notin failed) =>
        LET folders == {i \in ReachedBelow : IsFolderMime(nodes[i].kind)}
            files == {i \in ReachedBelow : /\ ~IsFolderMime(nodes[i].kind)
                                           /\ ~ContainsAppsFile(nodes[i].kind)}
        IN result.val = <<Cardinality(files), Cardinality(folders),
                          Cardinality(folders)>>

\* the absence value of the top-level call
Absent ==
    IF args.op = "count" THEN result.val = NoneTriple ELSE result.none

\* C4: once a listing call for the root's own pages has failed, count
\* returns (None, None, None) and get_top_level_folders returns None.
C4_AbsenceAfterOwnListingFailure ==
    (pc # "run" /\ args.op \in {"count", "list"} /\ 1 \in failed) =>
        (pc = "done" /\ Absent)

\* ------------------------------------------------------------ copy properties
CopyFrames == {k \in 1..Len(stack) : stack[k].fn = "copy"}

\* The effective destination of invocation f is there: the folder f made
\* under its destination, or the destination itself without a name.
OwnContainer(f) ==
    IF f.name # 0
    THEN f.newid \in 1..Len(nodes) /\ nodes[f.newid] = CreatedFolder(f)
    ELSE f.newid = f.dst

\* C5: every call that creates an entry names as parent a folder that is
\* there when the call is made, the destination of the top-level call or a
\* folder made by a creation call that answered; an invocation lists and
\* copies children only once its own folder is made, and a recursive call
\* is given that folder as destination.
C5_ParentMadeBeforeChildren ==
    /\ \A c \in calls :
          /\ c.existed
          /\ \/ c.parent = args.dst
             \/ c.parent \in 1..Len(nodes) /\ nodes[c.parent].via = "create"
    /\ \A k \in CopyFrames :
          LET f == stack[k]
          IN /\ f.st = "create" =>
                    k = Len(stack) /\ f.snap = <<>> /\ f.seen = <<>> /\ ~f.lfail
             /\ f.st \in {"list", "items"} => OwnContainer(f)
             /\ k > 1 => /\ stack[k - 1].st = "items"
                         /\ OwnContainer(stack[k - 1])
                         /\ f.dst = stack[k - 1].newid

\* A file was copied into a folder the copy made two levels down, in a run
\* with a failure.
C5_Witness ==
    /\ fails > 0
    /\ Len(stack) >= 2
    /\ \E c \in calls : c.verb # "create" /\ c.parent > args.n0
                        /\ nodes[c.parent].parent > args.n0

\* The folders made by the invocation recorded as r.
MadeBy(r) ==
    {j \in 1..Len(nodes) : /\ nodes[j].via = "create"
                           /\ nodes[j].orig = r.src
                           /\ nodes[j].parent = r.dst}

\* The invocation recorded as r returned its effective destination.
ReturnsDest(r) ==
    /\ ~r.ret.none
    /\ IF r.name # 0 THEN MadeBy(r) = {r.ret.val[1]} ELSE r.ret.val = <<r.dst>>

\* C6, as stated: an invocation whose creation step did not fail returns
\* its effective destination; None is returned only by an invocation
\* whose creation failed, which has made no folder.
C6_NoneOnlyWhenCreationFailed ==
    \A r \in rets :
        /\ ~r.cfail => ReturnsDest(r)
        /\ r.ret.none => r.cfail /\ MadeBy(r) = {}

\* C6, amended: an invocation returns its effective destination exactly
\* when its creation step (if any) and all its own listing calls
\* succeeded.  It returns None when its creation failed, and has then
\* made no folder, or when one of its own listing calls failed, and then
\* the folder it made stays.  The top-level call returns what its
\* invocation returns.
C6_NoneWhenCreationOrListingFailed ==
    /\ \A r \in rets :
          /\ r.ret.none <=> (r.cfail \/ r.lfail)
          /\ ~r.ret.none => ReturnsDest(r)
          /\ r.cfail => r.name # 0 /\ MadeBy(r) = {}
          /\ (r.lfail /\ r.name # 0) => Cardinality(MadeBy(r)) = 1
    /\ pc = "done" => \E r \in rets : r.depth = 1 /\ result = r.ret

\* An invocation made its folder, copied a page into it, and returned
\* None because a later listing call failed.
C6_Witness ==
    \E r \in rets : /\ r.lfail /\ r.ret.none /\ r.name # 0
                    /\ MadeBy(r) # {} /\ r.seen # <<>>

\* Source entry c has its copy in folder into.
Copied(c, into) ==
    \E j \in 1..Len(nodes) : /\ nodes[j].orig = c
                             /\ nodes[j].parent = into
                             /\ nodes[j].name = nodes[c].name
                             /\ nodes[j].kind = nodes[c].kind

Range(q) == {q[i] : i \in 1..Len(q)}

\* C7: when the top-level copy has returned, failures below it have not
\* changed its return value (the folder it made, when its own creation and
\* listing calls succeeded), and in every folder whose invocation returned
\* its destination each child has its copy there, except a child whose
\* own copy or creation call failed: a failing listing or a failing file
\* copy costs neither the siblings before it nor those after it.
C7_FailuresBelowAreContained ==
    pc = "done" =>
        /\ \A r \in rets :
              (r.depth = 1 /\ ~r.cfail /\ ~r.lfail) =>
                  (result = r.ret /\ ReturnsDest(r))
        /\ \A r \in rets :
              ~r.ret.none =>
                  \A c \in Range(Matches("copy", r.src)) :
                      c \notin cpfail => Copied(c, r.ret.val[1])

\* The listing of a folder two levels down failed, or the copy of a file
\* there, and a sibling listed after it was copied.
C7_Witness ==
    /\ pc = "done"
    /\ ~result.none
    /\ \E r \in rets :
          /\ r.depth = 2
          /\ ~r.ret.none
          /\ \E a, b \in Range(Matches("copy", r.src)) :
                /\ a < b
                /\ a \in failed \cup cpfail
                /\ b \notin cpfail
                /\ Copied(b, r.ret.val[1])

\* The only copy of source entry s.
TheCopy(s) == CHOOSE j \in 1..Len(nodes) : nodes[j].orig = s

\* How the copy of an entry of kind k is made.
MadeVia(k) ==
    IF k = FOLDER THEN "create"
    ELSE IF k \in {NATIVE, GFILE} THEN "copy" ELSE "upload"

\* C8: when no remote call fails, a copy with a name into a destination
\* outside the source leaves under the destination one new folder of that
\* name, returned by the call, and below it exactly one new entry for each
\* entry below the source that is not in the trash, with the same name and
\* type, under the copy of its parent, made by files().copy for a
\* workspace type and by download and upload otherwise; nothing else is
\* new, and no new identifier is a source identifier.
C8_CopyMirrorsSource ==
    (pc = "done" /\ args.op = "copy" /\ args.name # 0 /\ fails = 0) =>
        LET new == {j \in 1..Len(nodes) : j > args.n0}
            below == LiveBelow(args.src)
        IN /\ ~result.none
           /\ result.val[1] \in new
           /\ nodes[result.val[1]] =
                 [parent |-> args.dst, kind |-> FOLDER, trashed |-> FALSE,
                  name |-> args.name, orig |-> args.src, via |-> "create"]
           /\ \A s \in below :
                 /\ Cardinality({j \in new : nodes[j].orig = s}) = 1
                 /\ TheCopy(s) \in new
                 /\ nodes[TheCopy(s)].name = nodes[s].name
                 /\ nodes[TheCopy(s)].kind = nodes[s].kind
                 /\ nodes[TheCopy(s)].via = MadeVia(nodes[s].kind)
                 /\ nodes[TheCopy(s)].parent =
                       IF nodes[s].parent = args.src THEN result.val[1]
                       ELSE TheCopy(nodes[s].parent)
           /\ Cardinality(new) = Cardinality(below) + 1
           /\ \A j \in new : nodes[j].orig \in below \cup {args.src}

\* A tree two levels deep, with a workspace file and a binary file, was
\* copied.
C8_Witness ==
    /\ pc = "done" /\ args.op = "copy" /\ args.name # 0 /\ fails = 0
    /\ \E a, b \in LiveBelow(args.src) :
          /\ nodes[a].kind = NATIVE
          /\ nodes[b].kind = BINARY
          /\ nodes[b].parent # args.src
          /\ Copied(b, TheCopy(nodes[b].parent))

\* ------------------------------------------------------------ paging
IsPrefix(a, b) == Len(a) <= Len(b) /\ a = SubSeq(b, 1, Len(a))

\* C9: in the cursor loops of count_items, get_top_level_folders and
\* copy_folder the entries handled so far are, in the remote's order and
\* each once, the first of the children the query matches; the token
\* passed to a listing call is the one the last page came with; the loop
\* ends normally only after a page without token, and has then handled
\* every child once; get_top_level_folders returns the child folders in
\* the remote's order.
C9_EveryChildOnce ==
    /\ \A k \in 1..Len(stack) :
          LET f == stack[k]
              all == Matches(f.fn, f.id)
          IN /\ IsPrefix(f.seen, all)
             /\ f.st = "list" => f.tok = f.next
             /\ (f.st = "ret" /\ ~f.cfail /\ ~f.lfail) =>
                    f.next = 0 /\ f.seen = all
    /\ (pc = "done" /\ args.op = "list" /\ ~result.none) =>
          result.val = Matches("list", 1)

\* Three child folders were listed in three pages.
C9_Witness ==
    /\ pc = "done"
    /\ args.op = "list"
    /\ args.page = 1
    /\ Len(result.val) = 3

====
